---------------------------- MODULE Spec2Model ----------------------------
(***************************************************************************)
(* DS8Server.py: the control server of the DSuper8 film digitizer.         *)
(*                                                                         *)
(* The model follows the execution contexts of the program:                *)
(*   - the main thread: DS8Server.run, processCmd and everything they call *)
(*     (newImage, takeAndQueuePhoto, sendSS, ..., infExitClient, exit);    *)
(*   - the 5 ImageStreamer threads of config.pool;                         *)
(*   - the StreamReader thread feeding the command queue;                  *)
(*   - the MotorDriver process (controlProcess, outside this file).        *)
(* The main thread is cut into steps at every point where it touches       *)
(* state shared with another context (locks, pool, events, queues, the     *)
(* image connection).                                                     *)
(***************************************************************************)
EXTENDS Integers, Sequences, FiniteSets, TLC

(***************************************************************************)
(* Program constants and model bounds.                                     *)
(***************************************************************************)
\* range(5) in DS8Server.__init__: the number of ImageStreamer threads.
NumStreamers == 5

\* Inputs from outside during one run: lines the client sends on the control
\* connection and operator interrupts (Ctrl-C).
MaxInputs == 2

\* Lines waiting in StreamReader.que at one time.
MaxQue == 1

\* Failures of the image connection during one run: the client going away,
\* the client ceasing to read.
MaxFaults == 1

\* config.pool[i].name = "Thread-{:02d}".format(i+1)
ThreadName(i) == <<"Thread-01", "Thread-02", "Thread-03", "Thread-04",
                   "Thread-05", "Thread-06">>[i]

Streamers == {ThreadName(i) : i \in 1..NumStreamers}

None == "none"
Main == "main"
Motor == "motor"

(***************************************************************************)
(* Command lines.  A line is a sequence of characters.  The command codes  *)
(* are the names of the module `codes` (each stands for its one-character  *)
(* value); "?" is a character that is no command code; "1".."3" are        *)
(* digits, "." the decimal point, "x" a letter, "\n" the line end.         *)
(***************************************************************************)
IntCmds == {"setZ", "setY", "setX", "constraintMode", "exposureMode",
            "meteringMode", "setSize"}

FloatCmds == {"analogueGain", "expComp", "gainBlue", "gainRed", "brightness",
              "contrast", "saturation", "bracketingStops", "fixExposure",
              "setSharp"}

FlipCmds == {"vflipOn", "vflipOff", "hflipOn", "hflipOff"}

LightCmds == {"lightOn", "lightOff"}

MotorCmds == {"motorFrev", "motorRev", "motorStop", "motorFwd", "motorFfd",
              "activateMotor", "deactivateMotor"}

FrameCmds == {"capFrameRev", "capFrameAdv"}

SvCmds == {"updateFrame", "noUpdateFrame", "sendStop"}

AutoexpCmds == {"autoexpOn", "autoexpOff"}

Codes == IntCmds \cup FloatCmds \cup FlipCmds \cup LightCmds \cup MotorCmds
         \cup FrameCmds \cup SvCmds \cup AutoexpCmds
         \cup {"newImage", "awbMode", "previewOn", "previewOff", "clientQuit",
               "bracketingShots", "testPhoto", "stopCapture", "startCapture"}

Digits == {"0", "1", "2", "3"}

DigitVal(c) == CASE c = "0" -> 0 [] c = "1" -> 1 [] c = "2" -> 2 [] OTHER -> 3

\* cmdstr.replace("\n", "")
StripNl(line) == SelectSeq(line, LAMBDA c : c # "\n")

\* int(setting) succeeds: a non-empty run of digits.
IsInt(s) == Len(s) > 0 /\ \A i \in 1..Len(s) : s[i] \in Digits

\* float(setting) succeeds: digits with at most one decimal point, at least
\* one digit.
IsFloat(s) ==
    /\ \E i \in 1..Len(s) : s[i] \in Digits
    /\ \A i \in 1..Len(s) : s[i] \in Digits \cup {"."}
    /\ Cardinality({i \in 1..Len(s) : s[i] = "."}) <= 1

RECURSIVE IntOf(_)
\* int(setting) for a run of digits.
IntOf(s) == IF s = <<>> THEN 0
            ELSE 10 * IntOf(SubSeq(s, 1, Len(s) - 1)) + DigitVal(s[Len(s)])

\* The lines the client sends: one or more per handler shape of processCmd,
\* well-formed and malformed.
ClientLines ==
    { <<"newImage", "\n">>,
      <<"previewOn", "\n">>,
      <<"startCapture", "\n">>,
      <<"testPhoto", "\n">>,
      <<"bracketingShots", "2", "\n">>,
      <<"bracketingShots", "x", "\n">>,
      <<"clientQuit", "\n">>,
      <<"updateFrame", "\n">>,
      <<"awbMode", "1", "\n">>,
      <<"autoexpOn", "\n">>,
      <<"setZ", "\n">>,
      <<"fixExposure", "1", ".", "2", "\n">>,
      <<"capFrameAdv", "\n">>,
      <<"vflipOn", "\n">>,
      <<"motorFwd", "\n">>,
      <<"stopCapture", "\n">>,
      <<"?", "1", "\n">>,
      <<"\n">> }

VARIABLES
    srv,            \* DS8Server: imgcount, autoAdvance (baseExpTime)
    cam,            \* DS8Camera: mode, bracketing, autoExp, awb (exposure)
    main,           \* the main thread: where it is and its local variables
    pool,           \* config.pool, the list of idle ImageStreamer threads
    connectionLock, \* holder of DS8Server.connectionLock in the server process
    poolLock,       \* holder of DS8Server.poolLock
    motorLock,      \* holder of the MotorDriver process's copy of connectionLock
    streamer,       \* the ImageStreamer threads
    wire,           \* what has reached the image socket, oldest first
    buf,            \* what config.imgConn (a buffered writer) holds unflushed
    conn,           \* state of connections and sockets
    ev,             \* mainExitEvent, motExitEvent, capEvent
    sv,             \* svUpdateFrame, svSendStop
    motorQueue,     \* orders for the MotorDriver process
    driver,         \* the MotorDriver process
    reader,         \* the StreamReader thread and its queue
    hist            \* what has happened so far (observation only)

vars == <<srv, cam, main, pool, connectionLock, poolLock, motorLock, streamer,
          wire, buf, conn, ev, sv, motorQueue, driver, reader, hist>>


(***************************************************************************)
(* Records on the image connection.  An image frame is a header (flag,     *)
(* exposure time, length) followed by the image bytes; the image bytes are *)
(* one or two pieces, the piece with last = TRUE ending the frame.         *)
(***************************************************************************)
\* What struct.pack writes for a format: 4 bytes, little-endian.
PackType(fmt) ==
    CASE fmt \in {"<i", "<l"} -> "int32"
      [] fmt = "<L" -> "uint32"
      [] OTHER -> "float32"

\* A sendSS that leaves out the frame rate.
PackedNoRate(f) ==
    CASE f \in {"e", "f"} -> <<"<l", "<f", "<f">>
      [] f = "g" -> <<"<f", "<f">>
      [] OTHER -> <<>>

\* The formats of the fields written after the flag byte: sendSS (flags e
\* and f), sendGains (g); the notices are the flag byte alone.
Packed(f) ==
    CASE f \in {"e", "f"} -> <<"<l", "<f", "<f", "<f">>
      [] f = "g" -> <<"<f", "<f">>
      [] OTHER -> <<>>

\* The types of the fields of a record, in order.
Fields(fmts) == [i \in 1..Len(fmts) |-> PackType(fmts[i])]

Rec(f) == [t |-> "rec", f |-> f, id |-> 0, last |-> TRUE,
           fields |-> Fields(Packed(f))]

\* sendFile: the flag, pack("<i", exposureTime), pack("<L", size).
Hdr(f, id) == [t |-> "hdr", f |-> f, id |-> id, last |-> FALSE,
               fields |-> Fields(<<"<i", "<L">>)]

Img(id, last) == [t |-> "img", f |-> "", id |-> id, last |-> last,
                  fields |-> <<>>]

\* How a captured JPEG compares with the buffer of config.imgConn.
ImageSizes == {"fits", "large"}

(***************************************************************************)
(* The state after DS8Server.__init__ and driverprocess.start().           *)
(***************************************************************************)
Init ==
    /\ srv = [imgcount |-> 0, autoAdvance |-> FALSE]
    /\ cam = [mode |-> "off", bracketing |-> 1, autoExp |-> FALSE,
              awb |-> FALSE]
    /\ main = [pc |-> "run", stack |-> <<>>, handler |-> FALSE, flag |-> None,
               imgflag |-> None, shot |-> 0, processor |-> None, error |-> None]
    /\ pool = [i \in 1..NumStreamers |-> ThreadName(i)]
    /\ connectionLock = None
    /\ poolLock = None
    /\ motorLock = None
    /\ streamer = [w \in Streamers |->
                     [pc |-> "wait", event |-> FALSE, imgflag |-> "s",
                      frame |-> 0, size |-> None, failed |-> FALSE,
                      terminated |-> FALSE]]
    /\ wire = <<>>
    /\ buf = <<>>
    /\ conn = [imgClosed |-> FALSE, ctrlClosed |-> FALSE,
               socksClosed |-> FALSE, broken |-> FALSE, stalled |-> FALSE]
    /\ ev = [mainExit |-> FALSE, motExit |-> FALSE, cap |-> FALSE]
    /\ sv = [updateFrame |-> 0, sendStop |-> 1]
    /\ motorQueue = <<>>
    /\ driver = [pc |-> "idle", order |-> None]
    /\ reader = [alive |-> TRUE, que |-> <<>>]
    /\ hist = [line |-> <<>>, snap |-> <<>>, inCmd |-> FALSE,
               enq |-> 0, fwd |-> 0, sent |-> 0, assigned |-> <<>>,
               exitLog |-> <<>>, exitRuns |-> 0, exitPopped |-> <<>>,
               captured |-> 0, faults |-> 0, inputs |-> 0]

(***************************************************************************)
(* Helpers of the main thread.                                             *)
(***************************************************************************)
\* An exception leaves the code the main thread is in.  Inside run()'s try
\* block it reaches one of the two except clauses, which call
\* infExitClient() and then exit(); raised inside an except clause it leaves
\* run() and ends the main thread.
Raised(err) ==
    IF main.handler
    THEN [main EXCEPT !.pc = "dead", !.stack = <<>>, !.error = err,
                      !.processor = None, !.imgflag = None, !.shot = 0,
                      !.flag = None]
    ELSE [main EXCEPT !.pc = "send_acq", !.flag = "X",
                      !.stack = <<"exit", "done">>,
                      !.handler = TRUE, !.error = err, !.processor = None,
                      !.imgflag = None, !.shot = 0]

\* Call a method: go to its first step, remember where to continue.
Call(m, pc, ret) == [m EXCEPT !.pc = pc, !.stack = <<ret>> \o @]

\* Return from a method.
Return(m) == [m EXCEPT !.pc = Head(m.stack), !.stack = Tail(@)]

\* One order put on motorQueue by a DS8Control method.
Enqueue(order) == motorQueue' = Append(motorQueue, order)

\* What a write to config.imgConn does, given the state of the connection.
WriteRaises == conn.imgClosed \/ conn.broken

WriteError == IF conn.imgClosed THEN "ValueError" ELSE "BrokenPipeError"

(***************************************************************************)
(* DS8Server.run and processCmd.                                           *)
(***************************************************************************)
\* cmd = cmdstr[0] of the stripped line; "IndexError" when nothing is left.
Dispatch(line) ==
    IF line = <<>> THEN "empty"
    ELSE IF StripNl(line) = <<>> THEN "IndexError"
    ELSE Head(StripNl(line))

\* setting = cmdstr[1:]
Setting(line) == Tail(StripNl(line))

\* data = self.ctrlReader.readline(1) returned a line: processCmd(data) starts.
Fetch(line) ==
    /\ main.pc = "run"
    /\ ~ev.mainExit
    /\ reader.que # <<>>
    /\ line = Head(reader.que)
    /\ reader' = [reader EXCEPT !.que = Tail(@)]

Noted(line) ==
    [hist EXCEPT !.line = line, !.inCmd = TRUE,
                 !.snap = [srv |-> srv, cam |-> cam, sv |-> sv,
                           enq |-> hist.enq, fwd |-> hist.fwd,
                           sent |-> hist.sent,
                           na |-> Len(hist.assigned)]]

\* The while condition of run() fails: run() returns and the program exits.
RunExit ==
    /\ main.pc = "run"
    /\ ev.mainExit
    /\ main' = [main EXCEPT !.pc = "done"]
    /\ UNCHANGED <<srv, cam, pool, connectionLock, poolLock, motorLock,
                   streamer, wire, buf, conn, ev, sv, motorQueue, driver,
                   reader, hist>>

\* processCmd returns to run().
CmdReturn ==
    /\ main.pc = "cmd_end"
    /\ main' = [main EXCEPT !.pc = "run"]
    /\ hist' = [hist EXCEPT !.inCmd = FALSE, !.line = <<>>, !.snap = <<>>]
    /\ UNCHANGED <<srv, cam, pool, connectionLock, poolLock, motorLock,
                   streamer, wire, buf, conn, ev, sv, motorQueue, driver,
                   reader>>

\* A line holding only the line end: cmdstr[0] of the empty string.
CmdIndexError ==
    \E line \in ClientLines :
        /\ Fetch(line)
        /\ Dispatch(line) = "IndexError"
        /\ main' = Raised("IndexError")
        /\ hist' = Noted(line)
        /\ UNCHANGED <<srv, cam, pool, connectionLock, poolLock, motorLock,
                       streamer, wire, buf, conn, ev, sv, motorQueue, driver>>

\* No branch of the elif chain matches.
CmdUnknown ==
    \E line \in ClientLines :
        /\ Fetch(line)
        /\ Dispatch(line) \notin Codes \cup {"empty", "IndexError"}
        /\ main' = [main EXCEPT !.pc = "cmd_end"]
        /\ hist' = Noted(line)
        /\ UNCHANGED <<srv, cam, pool, connectionLock, poolLock, motorLock,
                       streamer, wire, buf, conn, ev, sv, motorQueue, driver>>

\* setZ, setY, setX, constraintMode, exposureMode, meteringMode, setSize:
\* int(setting), then a camera setting outside this model.
CmdCamInt ==
    \E line \in ClientLines :
        /\ Fetch(line)
        /\ Dispatch(line) \in IntCmds
        /\ main' = IF IsInt(Setting(line))
                   THEN [main EXCEPT !.pc = "cmd_end"]
                   ELSE Raised("ValueError")
        /\ hist' = Noted(line)
        /\ UNCHANGED <<srv, cam, pool, connectionLock, poolLock, motorLock,
                       streamer, wire, buf, conn, ev, sv, motorQueue, driver>>

\* The commands that pass round(float(setting), n) to a camera control.
CmdCamFloat ==
    \E line \in ClientLines :
        /\ Fetch(line)
        /\ Dispatch(line) \in FloatCmds
        /\ main' = IF IsFloat(Setting(line))
                   THEN [main EXCEPT !.pc = "cmd_end"]
                   ELSE Raised("ValueError")
        /\ hist' = Noted(line)
        /\ UNCHANGED <<srv, cam, pool, connectionLock, poolLock, motorLock,
                       streamer, wire, buf, conn, ev, sv, motorQueue, driver>>

\* vflip / hflip: reconfigure the camera, no argument.
CmdFlip ==
    \E line \in ClientLines :
        /\ Fetch(line)
        /\ Dispatch(line) \in FlipCmds
        /\ main' = [main EXCEPT !.pc = "cmd_end"]
        /\ hist' = Noted(line)
        /\ UNCHANGED <<srv, cam, pool, connectionLock, poolLock, motorLock,
                       streamer, wire, buf, conn, ev, sv, motorQueue, driver>>

\* awbMode: cam.setAwbMode(int(setting)).
CmdAwbMode ==
    \E line \in ClientLines :
        /\ Fetch(line)
        /\ Dispatch(line) = "awbMode"
        /\ IF IsInt(Setting(line))
           THEN /\ main' = [main EXCEPT !.pc = "cmd_end"]
                /\ cam' = [cam EXCEPT !.awb = (IntOf(Setting(line)) # 0)]
           ELSE /\ main' = Raised("ValueError")
                /\ cam' = cam
        /\ hist' = Noted(line)
        /\ UNCHANGED <<srv, pool, connectionLock, poolLock, motorLock,
                       streamer, wire, buf, conn, ev, sv, motorQueue, driver>>

\* bracketingShots: self.cam.bracketing = int(setting).
CmdBracketingShots ==
    \E line \in ClientLines :
        /\ Fetch(line)
        /\ Dispatch(line) = "bracketingShots"
        /\ IF IsInt(Setting(line))
           THEN /\ main' = [main EXCEPT !.pc = "cmd_end"]
                /\ cam' = [cam EXCEPT !.bracketing = IntOf(Setting(line))]
           ELSE /\ main' = Raised("ValueError")
                /\ cam' = cam
        /\ hist' = Noted(line)
        /\ UNCHANGED <<srv, pool, connectionLock, poolLock, motorLock,
                       streamer, wire, buf, conn, ev, sv, motorQueue, driver>>

\* autoexpOn / autoexpOff.
CmdAutoexp ==
    \E line \in ClientLines :
        /\ Fetch(line)
        /\ Dispatch(line) \in AutoexpCmds
        /\ cam' = [cam EXCEPT !.autoExp = (Dispatch(line) = "autoexpOn")]
        /\ main' = [main EXCEPT !.pc = "cmd_end"]
        /\ hist' = Noted(line)
        /\ UNCHANGED <<srv, pool, connectionLock, poolLock, motorLock,
                       streamer, wire, buf, conn, ev, sv, motorQueue, driver>>

\* updateFrame, noUpdateFrame, sendStop: the shared values.
CmdShared ==
    \E line \in ClientLines :
        /\ Fetch(line)
        /\ Dispatch(line) \in SvCmds
        /\ sv' = CASE Dispatch(line) = "updateFrame" ->
                        [sv EXCEPT !.updateFrame = 1]
                   [] Dispatch(line) = "noUpdateFrame" ->
                        [sv EXCEPT !.updateFrame = 0]
                   [] OTHER -> [sv EXCEPT !.sendStop = 1]
        /\ main' = [main EXCEPT !.pc = "cmd_end"]
        /\ hist' = Noted(line)
        /\ UNCHANGED <<srv, cam, pool, connectionLock, poolLock, motorLock,
                       streamer, wire, buf, conn, ev, motorQueue, driver>>

\* The order a DS8Control method puts on motorQueue for a command:
\* motorFwd and capFrameAdv call fwdFrame, motorRev and capFrameRev revFrame.
Order(cmd) ==
    CASE cmd \in {"motorFwd", "capFrameAdv"} -> "fwdFrame"
      [] cmd \in {"motorRev", "capFrameRev"} -> "revFrame"
      [] OTHER -> cmd

\* lightOn, lightOff and the motor commands without argument: one order.
CmdControl ==
    \E line \in ClientLines :
        /\ Fetch(line)
        /\ Dispatch(line) \in LightCmds \cup MotorCmds
        /\ Enqueue(Order(Dispatch(line)))
        /\ main' = [main EXCEPT !.pc = "cmd_end"]
        /\ hist' = [Noted(line) EXCEPT
                      !.enq = @ + 1,
                      !.fwd = @ + (IF Dispatch(line) = "motorFwd" THEN 1 ELSE 0)]
        /\ UNCHANGED <<srv, cam, pool, connectionLock, poolLock, motorLock,
                       streamer, wire, buf, conn, ev, sv, driver>>

\* capFrameRev, capFrameAdv: num = int(setting) if setting else 1.
CmdFrames ==
    \E line \in ClientLines :
        /\ Fetch(line)
        /\ Dispatch(line) \in FrameCmds
        /\ IF Setting(line) = <<>> \/ IsInt(Setting(line))
           THEN /\ main' = [main EXCEPT !.pc = "cmd_end"]
                /\ Enqueue(Order(Dispatch(line)))
                /\ hist' = [Noted(line) EXCEPT
                              !.enq = @ + 1,
                              !.fwd = @ + (IF Dispatch(line) = "capFrameAdv"
                                           THEN 1 ELSE 0)]
           ELSE /\ main' = Raised("ValueError")
                /\ UNCHANGED motorQueue
                /\ hist' = Noted(line)
        /\ UNCHANGED <<srv, cam, pool, connectionLock, poolLock, motorLock,
                       streamer, wire, buf, conn, ev, sv, driver>>


(***************************************************************************)
(* sendSS, sendGains, sendLightOn, sendLightOff, infExitClient: a record   *)
(* written and flushed under connectionLock.  main.flag is its flag byte.  *)
(***************************************************************************)
\* with self.connectionLock: (entered)
SendAcquire ==
    /\ main.pc = "send_acq"
    /\ connectionLock = None
    /\ connectionLock' = Main
    /\ main' = [main EXCEPT !.pc = "send_wr"]
    /\ UNCHANGED <<srv, cam, pool, poolLock, motorLock, streamer, wire, buf,
                   conn, ev, sv, motorQueue, driver, reader, hist>>

\* The writes, the flush and the end of the with block.
SendWrite ==
    /\ main.pc = "send_wr"
    /\ connectionLock' = None
    /\ IF WriteRaises
       THEN /\ main' = Raised(WriteError)
            /\ UNCHANGED <<wire, buf, hist>>
       ELSE /\ ~conn.stalled
            /\ wire' = wire \o buf \o <<Rec(main.flag)>>
            /\ buf' = <<>>
            /\ hist' = [hist EXCEPT !.sent = @ + 1]
            /\ main' = Return(main)
    /\ UNCHANGED <<srv, cam, pool, poolLock, motorLock, streamer, conn, ev,
                   sv, motorQueue, driver, reader>>

(***************************************************************************)
(* The handlers of processCmd that write to the image connection.          *)
(***************************************************************************)
\* previewOn / previewOff: the light order, then the light notice.
CmdPreview ==
    \E line \in ClientLines :
        /\ Fetch(line)
        /\ Dispatch(line) \in {"previewOn", "previewOff"}
        /\ Enqueue(IF Dispatch(line) = "previewOn" THEN "lightOn"
                   ELSE "lightOff")
        /\ main' = Call([main EXCEPT !.flag = IF Dispatch(line) = "previewOn"
                                              THEN "l" ELSE "L"],
                        "send_acq", "preview_mode")
        /\ hist' = [Noted(line) EXCEPT !.enq = @ + 1]
        /\ UNCHANGED <<srv, cam, pool, connectionLock, poolLock, motorLock,
                       streamer, wire, buf, conn, ev, sv, driver>>

\* self.cam.mode = self.cam.previewing / self.cam.off, after the notice.
PreviewMode ==
    /\ main.pc = "preview_mode"
    /\ cam' = [cam EXCEPT !.mode = IF main.flag = "l" THEN "previewing"
                                   ELSE "off"]
    /\ main' = [main EXCEPT !.pc = "cmd_end"]
    /\ UNCHANGED <<srv, pool, connectionLock, poolLock, motorLock, streamer,
                   wire, buf, conn, ev, sv, motorQueue, driver, reader, hist>>

\* stopCapture: mode off, light off, light-off notice.
CmdStopCapture ==
    \E line \in ClientLines :
        /\ Fetch(line)
        /\ Dispatch(line) = "stopCapture"
        /\ cam' = [cam EXCEPT !.mode = "off"]
        /\ Enqueue("lightOff")
        /\ main' = Call([main EXCEPT !.flag = "L"], "send_acq", "cmd_end")
        /\ hist' = [Noted(line) EXCEPT !.enq = @ + 1]
        /\ UNCHANGED <<srv, pool, connectionLock, poolLock, motorLock,
                       streamer, wire, buf, conn, ev, sv, driver>>

\* startCapture and testPhoto up to the light-on notice.
CmdCapture ==
    \E line \in ClientLines :
        /\ Fetch(line)
        /\ Dispatch(line) \in {"startCapture", "testPhoto"}
        /\ srv' = IF Dispatch(line) = "testPhoto"
                  THEN [srv EXCEPT !.autoAdvance = FALSE]
                  ELSE srv
        /\ sv' = [sv EXCEPT !.sendStop = 0]
        /\ Enqueue("lightOn")
        /\ main' = Call([main EXCEPT !.flag = "l"], "send_acq",
                        IF Dispatch(line) = "testPhoto" THEN "test_mode"
                        ELSE "start_mode")
        /\ hist' = [Noted(line) EXCEPT !.enq = @ + 1]
        /\ UNCHANGED <<cam, pool, connectionLock, poolLock, motorLock,
                       streamer, wire, buf, conn, ev, driver>>

\* startCapture: startCaptureMode(), autoAdvance = True, newImage().
StartCaptureMode ==
    /\ main.pc = "start_mode"
    /\ cam' = [cam EXCEPT !.mode = "capturing"]
    /\ srv' = [srv EXCEPT !.autoAdvance = TRUE]
    /\ main' = Call(main, "newImage", "cmd_end")
    /\ UNCHANGED <<pool, connectionLock, poolLock, motorLock, streamer, wire,
                   buf, conn, ev, sv, motorQueue, driver, reader, hist>>

\* testPhoto: mode capturing, sleep(0.5), newImage().
TestPhotoMode ==
    /\ main.pc = "test_mode"
    /\ cam' = [cam EXCEPT !.mode = "capturing"]
    /\ main' = Call(main, "newImage", "test_off")
    /\ UNCHANGED <<srv, pool, connectionLock, poolLock, motorLock, streamer,
                   wire, buf, conn, ev, sv, motorQueue, driver, reader, hist>>

\* testPhoto: lightOff() and the light-off notice.
TestPhotoOff ==
    /\ main.pc = "test_off"
    /\ Enqueue("lightOff")
    /\ main' = Call([main EXCEPT !.flag = "L"], "send_acq", "cmd_end")
    /\ hist' = [hist EXCEPT !.enq = @ + 1]
    /\ UNCHANGED <<srv, cam, pool, connectionLock, poolLock, motorLock,
                   streamer, wire, buf, conn, ev, sv, driver, reader>>

\* newImage requested by the client.
CmdNewImage ==
    \E line \in ClientLines :
        /\ Fetch(line)
        /\ Dispatch(line) = "newImage"
        /\ main' = Call(main, "newImage", "cmd_end")
        /\ hist' = Noted(line)
        /\ UNCHANGED <<srv, cam, pool, connectionLock, poolLock, motorLock,
                       streamer, wire, buf, conn, ev, sv, motorQueue, driver>>

\* clientQuit: self.exit().
CmdQuit ==
    \E line \in ClientLines :
        /\ Fetch(line)
        /\ Dispatch(line) = "clientQuit"
        /\ main' = Call(main, "exit", "cmd_end")
        /\ hist' = Noted(line)
        /\ UNCHANGED <<srv, cam, pool, connectionLock, poolLock, motorLock,
                       streamer, wire, buf, conn, ev, sv, motorQueue, driver>>

(***************************************************************************)
(* newImage.                                                               *)
(***************************************************************************)
\* An imgflag that marks the last shot of a bracket like the ones before it.
ImgFlagNoLast(shot, bkt) ==
    IF bkt = 1 THEN "s" ELSE IF shot <= bkt THEN "a" ELSE "b"

\* imgflag of a shot of a capture.
ImgFlag(shot, bkt) ==
    IF bkt = 1 THEN "s" ELSE IF shot < bkt THEN "a" ELSE "b"

\* A counter that is stepped twice.
CountedTwice(s) == [s EXCEPT !.imgcount = @ + 2]

\* self.imgcount += 1
Counted(s) == [s EXCEPT !.imgcount = @ + 1]

\* The branch on self.cam.mode.
NewImage ==
    /\ main.pc = "newImage"
    /\ CASE cam.mode = "previewing" ->
              /\ main' = Call([main EXCEPT !.imgflag = "p"], "tq_lock",
                              "ni_preview")
              /\ srv' = srv
         [] cam.mode = "capturing" ->
              /\ main' = [main EXCEPT !.pc = IF cam.autoExp THEN "ni_ae"
                                             ELSE "ni_wait"]
              /\ srv' = srv
         [] OTHER ->
              /\ main' = Return(main)
              /\ srv' = Counted(srv)
    /\ UNCHANGED <<cam, pool, connectionLock, poolLock, motorLock, streamer,
                   wire, buf, conn, ev, sv, motorQueue, driver, reader, hist>>

\* Preview: after takeAndQueuePhoto, the exposure record if autoExp.
PreviewSent ==
    /\ main.pc = "ni_preview"
    /\ main' = IF cam.autoExp
               THEN Call([main EXCEPT !.flag = "e"], "send_acq", "ni_count")
               ELSE [main EXCEPT !.pc = "ni_count"]
    /\ UNCHANGED <<srv, cam, pool, connectionLock, poolLock, motorLock,
                   streamer, wire, buf, conn, ev, sv, motorQueue, driver,
                   reader, hist>>

\* Preview: the end of newImage.
PreviewCounted ==
    /\ main.pc = "ni_count"
    /\ srv' = Counted(srv)
    /\ main' = Return(main)
    /\ UNCHANGED <<cam, pool, connectionLock, poolLock, motorLock, streamer,
                   wire, buf, conn, ev, sv, motorQueue, driver, reader, hist>>

\* Capture with autoExp: calcExpParmsAE() has returned; sendSS("e").
AutoExposure ==
    /\ main.pc = "ni_ae"
    /\ main' = Call([main EXCEPT !.flag = "e"], "send_acq", "ni_wait")
    /\ UNCHANGED <<srv, cam, pool, connectionLock, poolLock, motorLock,
                   streamer, wire, buf, conn, ev, sv, motorQueue, driver,
                   reader, hist>>

\* while self.capEvent.is_set(): sleep(0.1)
WaitMotor ==
    /\ main.pc = "ni_wait"
    /\ ~ev.cap
    /\ main' = [main EXCEPT !.pc = "ni_shot", !.shot = 1]
    /\ UNCHANGED <<srv, cam, pool, connectionLock, poolLock, motorLock,
                   streamer, wire, buf, conn, ev, sv, motorQueue, driver,
                   reader, hist>>

\* One pass of the for loop up to sendSS("f"), or the end of newImage.
NextShot ==
    /\ main.pc = "ni_shot"
    /\ IF main.shot <= cam.bracketing
       THEN /\ main' = Call([main EXCEPT !.flag = "f"], "send_acq", "ni_pool")
            /\ UNCHANGED <<srv, motorQueue, hist>>
       ELSE /\ srv' = Counted(srv)
            /\ main' = Return(main)
            /\ IF srv.autoAdvance
               THEN /\ Enqueue("fwdFrame")
                    /\ hist' = [hist EXCEPT !.enq = @ + 1, !.fwd = @ + 1]
               ELSE UNCHANGED <<motorQueue, hist>>
    /\ UNCHANGED <<cam, pool, connectionLock, poolLock, motorLock, streamer,
                   wire, buf, conn, ev, sv, driver, reader>>

\* while not len(config.pool): sleep(1); then takeAndQueuePhoto(imgflag).
PoolWait ==
    /\ main.pc = "ni_pool"
    /\ Len(pool) > 0
    /\ main' = Call([main EXCEPT !.imgflag = ImgFlag(main.shot, cam.bracketing),
                                 !.shot = @ + 1],
                    "tq_lock", "ni_shot")
    /\ UNCHANGED <<srv, cam, pool, connectionLock, poolLock, motorLock,
                   streamer, wire, buf, conn, ev, sv, motorQueue, driver,
                   reader, hist>>

(***************************************************************************)
(* takeAndQueuePhoto.                                                      *)
(***************************************************************************)
\* A pop() that left the slot in the list.
PoppedKept(p) == p

\* config.pool after pop().
Popped(p) == SubSeq(p, 1, Len(p) - 1)

\* with self.poolLock: (entered)
TakeLock ==
    /\ main.pc = "tq_lock"
    /\ poolLock = None
    /\ poolLock' = Main
    /\ main' = [main EXCEPT !.pc = "tq_pop"]
    /\ UNCHANGED <<srv, cam, pool, connectionLock, motorLock, streamer, wire,
                   buf, conn, ev, sv, motorQueue, driver, reader, hist>>

\* if len(config.pool): processor = config.pool.pop(); else sleep(1), retry.
TakePop ==
    /\ main.pc = "tq_pop"
    /\ poolLock' = None
    /\ IF Len(pool) > 0
       THEN /\ main' = [main EXCEPT !.pc = "tq_capture",
                                    !.processor = pool[Len(pool)]]
            /\ pool' = Popped(pool)
       ELSE /\ main' = [main EXCEPT !.pc = "tq_lock"]
            /\ pool' = pool
    /\ UNCHANGED <<srv, cam, connectionLock, motorLock, streamer, wire, buf,
                   conn, ev, sv, motorQueue, driver, reader, hist>>

\* processor.imgflag = ...; capture_file(processor.stream); sendGains() if awb.
Capture ==
    /\ main.pc = "tq_capture"
    /\ \E size \in ImageSizes :
         streamer' = [streamer EXCEPT ![main.processor] =
                        [@ EXCEPT !.imgflag = main.imgflag,
                                  !.frame = hist.captured + 1,
                                  !.size = size]]
    /\ hist' = [hist EXCEPT !.captured = @ + 1]
    /\ main' = IF cam.awb
               THEN Call([main EXCEPT !.flag = "g"], "send_acq", "tq_set")
               ELSE [main EXCEPT !.pc = "tq_set"]
    /\ UNCHANGED <<srv, cam, pool, connectionLock, poolLock, motorLock, wire,
                   buf, conn, ev, sv, motorQueue, driver, reader>>

\* processor.exposureTime = ...; processor.event.set()
QueuePhoto ==
    /\ main.pc = "tq_set"
    /\ streamer' = [streamer EXCEPT ![main.processor].event = TRUE]
    /\ hist' = [hist EXCEPT !.assigned =
                  Append(@, <<streamer[main.processor].frame,
                              streamer[main.processor].imgflag>>)]
    /\ main' = Return([main EXCEPT !.processor = None])
    /\ UNCHANGED <<srv, cam, pool, connectionLock, poolLock, motorLock, wire,
                   buf, conn, ev, sv, motorQueue, driver, reader>>


(***************************************************************************)
(* exit: the shutdown sequence.                                            *)
(***************************************************************************)
\* exit() with the transport process signalled before the control lines are
\* released.
ExitStepSwapped(pc) ==
    CASE pc = "exit" -> "ex_notify"
      [] pc = "ex_notify" -> "ex_signal"
      [] pc = "ex_signal" -> "ex_cleanup"
      [] pc = "ex_cleanup" -> "ex_join"
      [] pc = "ex_join" -> "ex_pool"
      [] pc = "ex_pool" -> "ex_cam"
      [] pc = "ex_cam" -> "ex_close"
      [] pc = "ex_close" -> "ex_grace"
      [] pc = "ex_grace" -> "ex_socks"
      [] OTHER -> "ex_return"

\* The statements of exit() in program order: the step that follows each.
ExitStepAfter(pc) ==
    CASE pc = "exit" -> "ex_notify"
      [] pc = "ex_notify" -> "ex_cleanup"
      [] pc = "ex_cleanup" -> "ex_signal"
      [] pc = "ex_signal" -> "ex_join"
      [] pc = "ex_join" -> "ex_pool"
      [] pc = "ex_pool" -> "ex_cam"
      [] pc = "ex_cam" -> "ex_close"
      [] pc = "ex_close" -> "ex_grace"
      [] pc = "ex_grace" -> "ex_socks"
      [] OTHER -> "ex_return"

\* One phase of the running exit() is noted when its first statement runs.
Phase(h, name) ==
    IF h.exitLog # <<>> /\ h.exitLog[Len(h.exitLog)] = name THEN h
    ELSE [h EXCEPT !.exitLog = Append(@, name)]

\* with self.connectionLock: (entered), first statement of exit().
ExitAcquire ==
    /\ main.pc = "exit"
    /\ connectionLock = None
    /\ connectionLock' = Main
    /\ main' = [main EXCEPT !.pc = ExitStepAfter("exit")]
    /\ hist' = [hist EXCEPT !.exitRuns = @ + 1, !.exitLog = <<>>]
    /\ UNCHANGED <<srv, cam, pool, poolLock, motorLock, streamer, wire, buf,
                   conn, ev, sv, motorQueue, driver, reader>>

\* config.imgConn.write("T"), flush, end of the with block.
ExitNotify ==
    /\ main.pc = "ex_notify"
    /\ connectionLock' = None
    /\ IF WriteRaises
       THEN /\ main' = Raised(WriteError)
            /\ UNCHANGED <<wire, buf, hist>>
       ELSE /\ ~conn.stalled
            /\ wire' = wire \o buf \o <<Rec("T")>>
            /\ buf' = <<>>
            /\ hist' = [Phase(hist, "notify") EXCEPT !.sent = @ + 1]
            /\ main' = [main EXCEPT !.pc = ExitStepAfter("ex_notify")]
    /\ UNCHANGED <<srv, cam, pool, poolLock, motorLock, streamer, conn, ev,
                   sv, motorQueue, driver, reader>>

\* self.control.cleanup(): motor stopped, light off, GPIO released.
ExitCleanup ==
    /\ main.pc = "ex_cleanup"
    /\ main' = [main EXCEPT !.pc = ExitStepAfter("ex_cleanup")]
    /\ hist' = Phase(hist, "cleanup")
    /\ UNCHANGED <<srv, cam, pool, connectionLock, poolLock, motorLock,
                   streamer, wire, buf, conn, ev, sv, motorQueue, driver,
                   reader>>

\* self.mainExitEvent.set(); self.motExitEvent.set()
ExitSignal ==
    /\ main.pc = "ex_signal"
    /\ ev' = [ev EXCEPT !.mainExit = TRUE, !.motExit = TRUE]
    /\ main' = [main EXCEPT !.pc = ExitStepAfter("ex_signal")]
    /\ hist' = Phase(hist, "signal")
    /\ UNCHANGED <<srv, cam, pool, connectionLock, poolLock, motorLock,
                   streamer, wire, buf, conn, sv, motorQueue, driver, reader>>

\* self.driverprocess.join(): returns when the process has ended.
ExitJoinDriver ==
    /\ main.pc = "ex_join"
    /\ driver.pc = "done"
    /\ main' = [main EXCEPT !.pc = ExitStepAfter("ex_join")]
    /\ hist' = Phase(hist, "join")
    /\ UNCHANGED <<srv, cam, pool, connectionLock, poolLock, motorLock,
                   streamer, wire, buf, conn, ev, sv, motorQueue, driver,
                   reader>>

\* while len(config.pool): streamer = config.pool.pop();
\* streamer.terminated = True   (no pool lock is taken here)
ExitPool ==
    /\ main.pc = "ex_pool"
    /\ IF Len(pool) > 0
       THEN /\ pool' = Popped(pool)
            /\ streamer' = [streamer EXCEPT ![pool[Len(pool)]].terminated = TRUE]
            /\ main' = [main EXCEPT !.pc = "ex_tjoin",
                                    !.processor = pool[Len(pool)]]
            /\ hist' = [Phase(hist, "streamers") EXCEPT
                          !.exitPopped = Append(@, pool[Len(pool)])]
       ELSE /\ main' = [main EXCEPT !.pc = ExitStepAfter("ex_pool")]
            /\ hist' = Phase(hist, "streamers")
            /\ UNCHANGED <<pool, streamer>>
    /\ UNCHANGED <<srv, cam, connectionLock, poolLock, motorLock, wire, buf,
                   conn, ev, sv, motorQueue, driver, reader>>

\* streamer.join(timeout=0.5): the thread has ended or the timeout expires.
ExitJoinStreamer ==
    /\ main.pc = "ex_tjoin"
    /\ main' = [main EXCEPT !.pc = "ex_pool", !.processor = None]
    /\ UNCHANGED <<srv, cam, pool, connectionLock, poolLock, motorLock,
                   streamer, wire, buf, conn, ev, sv, motorQueue, driver,
                   reader, hist>>

\* self.cam.mode = self.cam.off; self.cam.picam2.stop()
ExitCamera ==
    /\ main.pc = "ex_cam"
    /\ cam' = [cam EXCEPT !.mode = "off"]
    /\ main' = [main EXCEPT !.pc = ExitStepAfter("ex_cam")]
    /\ hist' = Phase(hist, "camera")
    /\ UNCHANGED <<srv, pool, connectionLock, poolLock, motorLock, streamer,
                   wire, buf, conn, ev, sv, motorQueue, driver, reader>>

\* config.imgConn.flush(); close(); config.ctrlConn.flush(); close()
\* (a closed file object is still true, so both ifs are taken)
ExitClose ==
    /\ main.pc = "ex_close"
    /\ IF conn.imgClosed \/ (conn.broken /\ buf # <<>>)
       THEN /\ main' = Raised(WriteError)
            /\ connectionLock' = connectionLock
            /\ UNCHANGED <<wire, buf, conn, hist>>
       ELSE /\ buf # <<>> => ~conn.stalled
            /\ wire' = wire \o buf
            /\ buf' = <<>>
            /\ conn' = [conn EXCEPT !.imgClosed = TRUE, !.ctrlClosed = TRUE]
            /\ main' = [main EXCEPT !.pc = ExitStepAfter("ex_close")]
            /\ hist' = Phase(hist, "close")
            /\ connectionLock' = connectionLock
    /\ UNCHANGED <<srv, cam, pool, poolLock, motorLock, streamer, ev, sv,
                   motorQueue, driver, reader>>

\* sleep(2)
ExitGrace ==
    /\ main.pc = "ex_grace"
    /\ main' = [main EXCEPT !.pc = ExitStepAfter("ex_grace")]
    /\ hist' = Phase(hist, "grace")
    /\ UNCHANGED <<srv, cam, pool, connectionLock, poolLock, motorLock,
                   streamer, wire, buf, conn, ev, sv, motorQueue, driver,
                   reader>>

\* imgSocket and ctrlSocket: shutdown(SHUT_RDWR), close()
ExitSockets ==
    /\ main.pc = "ex_socks"
    /\ conn' = [conn EXCEPT !.socksClosed = TRUE]
    /\ main' = [main EXCEPT !.pc = ExitStepAfter("ex_socks")]
    /\ hist' = Phase(hist, "sockets")
    /\ UNCHANGED <<srv, cam, pool, connectionLock, poolLock, motorLock,
                   streamer, wire, buf, ev, sv, motorQueue, driver, reader>>

\* exit() returns to its caller: processCmd, or an except clause of run().
ExitReturn ==
    /\ main.pc = "ex_return"
    /\ main' = Return(main)
    /\ UNCHANGED <<srv, cam, pool, connectionLock, poolLock, motorLock,
                   streamer, wire, buf, conn, ev, sv, motorQueue, driver,
                   reader, hist>>

\* Ctrl-C: KeyboardInterrupt raised in the main thread wherever it is; the
\* with blocks it leaves release their locks.
Interrupt ==
    /\ main.pc \notin {"done", "dead"}
    /\ hist.inputs < MaxInputs
    /\ main' = Raised("KeyboardInterrupt")
    /\ connectionLock' = IF connectionLock = Main THEN None ELSE connectionLock
    /\ poolLock' = IF poolLock = Main THEN None ELSE poolLock
    /\ hist' = [hist EXCEPT !.inputs = @ + 1]
    /\ UNCHANGED <<srv, cam, pool, motorLock, streamer, wire, buf, conn, ev,
                   sv, motorQueue, driver, reader>>

(***************************************************************************)
(* ImageStreamer.run and sendFile.  The threads are daemons: they run      *)
(* while the main thread does.                                             *)
(***************************************************************************)
ProcessAlive == main.pc \notin {"done", "dead"}

\* self.event.wait() returns; with self.connLock: (entered)
StreamerAcquire(w) ==
    /\ ProcessAlive
    /\ streamer[w].pc = "wait"
    /\ streamer[w].event
    /\ connectionLock = None
    /\ connectionLock' = w
    /\ streamer' = [streamer EXCEPT ![w].pc = "header"]
    /\ UNCHANGED <<srv, cam, main, pool, poolLock, motorLock, wire, buf, conn,
                   ev, sv, motorQueue, driver, reader, hist>>

\* sendFile: write(flag), write(exposureTime), write(size), flush().
StreamerHeader(w) ==
    /\ ProcessAlive
    /\ streamer[w].pc = "header"
    /\ IF WriteRaises
       THEN /\ streamer' = [streamer EXCEPT ![w].pc = "finally",
                                            ![w].failed = TRUE]
            /\ connectionLock' = None
            /\ UNCHANGED <<wire, buf>>
       ELSE /\ ~conn.stalled
            /\ wire' = wire \o buf
                       \o <<Hdr(streamer[w].imgflag, streamer[w].frame)>>
            /\ buf' = <<>>
            /\ streamer' = [streamer EXCEPT ![w].pc = "image"]
            /\ connectionLock' = connectionLock
    /\ UNCHANGED <<srv, cam, main, pool, poolLock, motorLock, conn, ev, sv,
                   motorQueue, driver, reader, hist>>

\* A sendFile after which the worker goes to its finally clause with the
\* connection lock still held.
StreamerImageHolds(w) ==
    /\ ProcessAlive
    /\ streamer[w].pc = "image"
    /\ connectionLock' = connectionLock
    /\ IF WriteRaises
       THEN /\ streamer' = [streamer EXCEPT ![w].pc = "finally",
                                            ![w].failed = TRUE]
            /\ UNCHANGED <<wire, buf>>
       ELSE /\ streamer' = [streamer EXCEPT ![w].pc = "finally",
                                            ![w].frame = 0]
            /\ IF streamer[w].size = "fits"
               THEN /\ buf' = buf \o <<Img(streamer[w].frame, TRUE)>>
                    /\ wire' = wire
               ELSE /\ ~conn.stalled
                    /\ \E rest \in BOOLEAN :
                         /\ wire' = wire \o buf
                                    \o <<Img(streamer[w].frame, ~rest)>>
                         /\ buf' = IF rest
                                   THEN <<Img(streamer[w].frame, TRUE)>>
                                   ELSE <<>>
    /\ UNCHANGED <<srv, cam, main, pool, poolLock, motorLock, conn, ev, sv,
                   motorQueue, driver, reader, hist>>

\* sendFile: write(stream.read()) with no flush after it, seek(0),
\* truncate(); end of the with block.  An image that fits the buffer of
\* config.imgConn stays in it; of a larger one the buffered writer passes the
\* bytes to the socket and keeps what the socket did not take (less than one
\* buffer) in the buffer.
StreamerImage(w) ==
    /\ ProcessAlive
    /\ streamer[w].pc = "image"
    /\ connectionLock' = None
    /\ IF WriteRaises
       THEN /\ streamer' = [streamer EXCEPT ![w].pc = "finally",
                                            ![w].failed = TRUE]
            /\ UNCHANGED <<wire, buf>>
       ELSE /\ streamer' = [streamer EXCEPT ![w].pc = "finally",
                                            ![w].frame = 0]
            /\ IF streamer[w].size = "fits"
               THEN /\ buf' = buf \o <<Img(streamer[w].frame, TRUE)>>
                    /\ wire' = wire
               ELSE /\ ~conn.stalled
                    /\ \E rest \in BOOLEAN :
                         /\ wire' = wire \o buf
                                    \o <<Img(streamer[w].frame, ~rest)>>
                         /\ buf' = IF rest
                                   THEN <<Img(streamer[w].frame, TRUE)>>
                                   ELSE <<>>
    /\ UNCHANGED <<srv, cam, main, pool, poolLock, motorLock, conn, ev, sv,
                   motorQueue, driver, reader, hist>>

\* finally: self.event.clear(); with self.poolLock: (entered)
StreamerFinally(w) ==
    /\ ProcessAlive
    /\ streamer[w].pc = "finally"
    /\ poolLock = None
    /\ poolLock' = w
    /\ streamer' = [streamer EXCEPT ![w].pc = "append", ![w].event = FALSE]
    /\ UNCHANGED <<srv, cam, main, pool, connectionLock, motorLock, wire, buf,
                   conn, ev, sv, motorQueue, driver, reader, hist>>

\* config.pool after append(w).
Appended(p, w) == Append(p, w)

\* config.pool.append(self); end of the with block.  An exception of the
\* try block now leaves run() and ends the thread.
StreamerAppend(w) ==
    /\ ProcessAlive
    /\ streamer[w].pc = "append"
    /\ pool' = Appended(pool, w)
    /\ poolLock' = None
    /\ streamer' = [streamer EXCEPT ![w].pc = IF streamer[w].failed
                                             THEN "ended" ELSE "loop"]
    /\ UNCHANGED <<srv, cam, main, connectionLock, motorLock, wire, buf, conn,
                   ev, sv, motorQueue, driver, reader, hist>>

\* while not self.exitEvent.is_set():
StreamerLoop(w) ==
    /\ ProcessAlive
    /\ streamer[w].pc = "loop"
    /\ streamer' = [streamer EXCEPT ![w].pc = IF ev.mainExit THEN "ended"
                                             ELSE "wait"]
    /\ UNCHANGED <<srv, cam, main, pool, connectionLock, poolLock, motorLock,
                   wire, buf, conn, ev, sv, motorQueue, driver, reader, hist>>

(***************************************************************************)
(* StreamReader.run.                                                       *)
(***************************************************************************)
\* line = self.stream.readline(); if line: self.que.put(line)
\* A line that arrives while a command is processed is not looked at before
\* run() is back at readline, so it is taken from the socket then.
ReaderPut ==
    \E line \in ClientLines :
        /\ ProcessAlive
        /\ main.pc = "run"
        /\ reader.alive
        /\ ~conn.ctrlClosed
        /\ hist.inputs < MaxInputs
        /\ Len(reader.que) < MaxQue
        /\ reader' = [reader EXCEPT !.que = Append(@, line)]
        /\ hist' = [hist EXCEPT !.inputs = @ + 1]
        /\ UNCHANGED <<srv, cam, main, pool, connectionLock, poolLock,
                       motorLock, streamer, wire, buf, conn, ev, sv,
                       motorQueue, driver>>

\* The loop ends: the exit event is set, or readline fails on the closed
\* connection (the exception is logged).
ReaderEnd ==
    /\ ProcessAlive
    /\ reader.alive
    /\ ev.mainExit \/ conn.ctrlClosed
    /\ reader' = [reader EXCEPT !.alive = FALSE]
    /\ UNCHANGED <<srv, cam, main, pool, connectionLock, poolLock, motorLock,
                   streamer, wire, buf, conn, ev, sv, motorQueue, driver,
                   hist>>


(***************************************************************************)
(* The MotorDriver process.  It was handed capEvent, motExitEvent,         *)
(* motorQueue, connectionLock and the two shared values; the lock is a     *)
(* threading.Lock, so the process works on its own copy of it (motorLock), *)
(* and on its own copy of config.imgConn over the same socket.             *)
(***************************************************************************)
Turning == {"fwdFrame", "revFrame"}

\* The next order is taken from the queue.
DriverTake ==
    /\ driver.pc = "idle"
    /\ ~ev.motExit
    /\ motorQueue # <<>>
    /\ motorQueue' = Tail(motorQueue)
    /\ IF Head(motorQueue) \in Turning
       THEN /\ ev' = [ev EXCEPT !.cap = TRUE]
            /\ driver' = [pc |-> "turning", order |-> Head(motorQueue)]
       ELSE /\ ev' = ev
            /\ driver' = [pc |-> IF Head(motorQueue) = "motorStop"
                                    /\ sv.sendStop = 1
                                 THEN "report" ELSE "idle",
                          order |-> Head(motorQueue)]
    /\ UNCHANGED <<srv, cam, main, pool, connectionLock, poolLock, motorLock,
                   streamer, wire, buf, conn, sv, reader, hist>>

\* The frame is in place: the busy flag is cleared.
DriverArrive ==
    /\ driver.pc = "turning"
    /\ ev' = [ev EXCEPT !.cap = FALSE]
    /\ driver' = [driver EXCEPT !.pc = IF sv.updateFrame = 1 THEN "report"
                                       ELSE "idle"]
    /\ UNCHANGED <<srv, cam, main, pool, connectionLock, poolLock, motorLock,
                   streamer, wire, buf, conn, sv, motorQueue, reader, hist>>

\* The process takes the lock it was given before it reports to the client.
DriverAcquire ==
    /\ driver.pc = "report"
    /\ motorLock = None
    /\ motorLock' = Motor
    /\ driver' = [driver EXCEPT !.pc = "write"]
    /\ UNCHANGED <<srv, cam, main, pool, connectionLock, poolLock, streamer,
                   wire, buf, conn, ev, sv, motorQueue, reader, hist>>

\* The advance or stop notice is written and flushed; the lock is released.
DriverWrite ==
    /\ driver.pc = "write"
    /\ motorLock' = None
    /\ IF conn.broken
       THEN /\ driver' = [driver EXCEPT !.pc = "done"]
            /\ wire' = wire
       ELSE /\ ~conn.stalled
            /\ wire' = Append(wire, Rec("m"))
            /\ driver' = [driver EXCEPT !.pc = "idle"]
    /\ UNCHANGED <<srv, cam, main, pool, connectionLock, poolLock, streamer,
                   buf, conn, ev, sv, motorQueue, reader, hist>>

\* motExitEvent is set: the process ends.
DriverExit ==
    /\ driver.pc = "idle"
    /\ ev.motExit
    /\ driver' = [driver EXCEPT !.pc = "done"]
    /\ UNCHANGED <<srv, cam, main, pool, connectionLock, poolLock, motorLock,
                   streamer, wire, buf, conn, ev, sv, motorQueue, reader,
                   hist>>

(***************************************************************************)
(* The client side of the image connection.                                *)
(***************************************************************************)
\* Some context is about to write to the socket.  What the client does is
\* seen by the program only at a write, so the two events below are taken
\* when one is due.
WritePending ==
    \/ main.pc \in {"send_wr", "ex_notify", "ex_close"}
    \/ \E w \in Streamers : streamer[w].pc \in {"header", "image"}
    \/ driver.pc = "write"

\* The client goes away: every later write to the socket fails.
Disconnect ==
    /\ ProcessAlive
    /\ WritePending
    /\ hist.faults < MaxFaults
    /\ ~conn.imgClosed
    /\ conn' = [conn EXCEPT !.broken = TRUE]
    /\ hist' = [hist EXCEPT !.faults = @ + 1]
    /\ UNCHANGED <<srv, cam, main, pool, connectionLock, poolLock, motorLock,
                   streamer, wire, buf, ev, sv, motorQueue, driver, reader>>

\* The client stops reading: every later write to the socket blocks.
Stall ==
    /\ ProcessAlive
    /\ WritePending
    /\ hist.faults < MaxFaults
    /\ ~conn.imgClosed
    /\ conn' = [conn EXCEPT !.stalled = TRUE]
    /\ hist' = [hist EXCEPT !.faults = @ + 1]
    /\ UNCHANGED <<srv, cam, main, pool, connectionLock, poolLock, motorLock,
                   streamer, wire, buf, ev, sv, motorQueue, driver, reader>>

(***************************************************************************)
(* The system.                                                             *)
(***************************************************************************)
Next ==
    \/ RunExit \/ CmdReturn
    \/ CmdIndexError \/ CmdUnknown \/ CmdCamInt \/ CmdCamFloat \/ CmdFlip
    \/ CmdAwbMode \/ CmdBracketingShots \/ CmdAutoexp \/ CmdShared
    \/ CmdControl \/ CmdFrames
    \/ SendAcquire \/ SendWrite
    \/ CmdPreview \/ PreviewMode \/ CmdStopCapture
    \/ CmdCapture \/ StartCaptureMode \/ TestPhotoMode \/ TestPhotoOff
    \/ CmdNewImage \/ CmdQuit
    \/ NewImage \/ PreviewSent \/ PreviewCounted \/ AutoExposure
    \/ WaitMotor \/ NextShot \/ PoolWait
    \/ TakeLock \/ TakePop \/ Capture \/ QueuePhoto
    \/ ExitAcquire \/ ExitNotify \/ ExitCleanup \/ ExitSignal
    \/ ExitJoinDriver \/ ExitPool \/ ExitJoinStreamer \/ ExitCamera
    \/ ExitClose \/ ExitGrace \/ ExitSockets \/ ExitReturn
    \/ Interrupt
    \/ \E w \in Streamers : StreamerAcquire(w)
    \/ \E w \in Streamers : StreamerHeader(w)
    \/ \E w \in Streamers : StreamerImage(w)
    \/ \E w \in Streamers : StreamerFinally(w)
    \/ \E w \in Streamers : StreamerAppend(w)
    \/ \E w \in Streamers : StreamerLoop(w)
    \/ ReaderPut \/ ReaderEnd
    \/ DriverTake \/ DriverArrive \/ DriverAcquire \/ DriverWrite
    \/ DriverExit
    \/ Disconnect \/ Stall

Spec == Init /\ [][Next]_vars

(***************************************************************************)
(* A capture session under way: startCapture has been processed and its    *)
(* frames have reached the client, the order to advance the film is still  *)
(* in the queue of the transport process, and the client's next newImage   *)
(* has been read.                                                          *)
(***************************************************************************)
\* The values of cam.bracketing of the sessions looked at.
SessionBrackets == {1, 3}

\* What one shot of an earlier capture left on the image connection.
ShotOnWire(i, n) == <<Rec("f"), Hdr(ImgFlag(i, n), i), Img(i, TRUE)>>

RECURSIVE ShotsOnWire(_, _)
ShotsOnWire(i, n) ==
    IF i = 0 THEN <<>> ELSE ShotsOnWire(i - 1, n) \o ShotOnWire(i, n)

InitSession ==
    /\ srv = [imgcount |-> 1, autoAdvance |-> TRUE]
    /\ \E n \in SessionBrackets, ae \in BOOLEAN :
         /\ cam = [mode |-> "capturing", bracketing |-> n, autoExp |-> ae,
                   awb |-> FALSE]
         /\ wire = <<Rec("l")>> \o (IF ae THEN <<Rec("e")>> ELSE <<>>)
                   \o ShotsOnWire(n, n)
         /\ hist = [line |-> <<>>, snap |-> <<>>, inCmd |-> FALSE,
                    enq |-> 2, fwd |-> 1,
                    sent |-> 1 + n + (IF ae THEN 1 ELSE 0),
                    assigned |-> [i \in 1..n |-> <<i, ImgFlag(i, n)>>],
                    exitLog |-> <<>>, exitRuns |-> 0, exitPopped |-> <<>>,
                    captured |-> n, faults |-> MaxFaults,
                    inputs |-> MaxInputs]
    /\ main = [pc |-> "run", stack |-> <<>>, handler |-> FALSE, flag |-> None,
               imgflag |-> None, shot |-> 0, processor |-> None, error |-> None]
    /\ pool = [i \in 1..NumStreamers |-> ThreadName(i)]
    /\ connectionLock = None
    /\ poolLock = None
    /\ motorLock = None
    /\ streamer = [w \in Streamers |->
                     [pc |-> "wait", event |-> FALSE, imgflag |-> "s",
                      frame |-> 0, size |-> None, failed |-> FALSE,
                      terminated |-> FALSE]]
    /\ buf = <<>>
    /\ conn = [imgClosed |-> FALSE, ctrlClosed |-> FALSE,
               socksClosed |-> FALSE, broken |-> FALSE, stalled |-> FALSE]
    /\ ev = [mainExit |-> FALSE, motExit |-> FALSE, cap |-> FALSE]
    /\ sv = [updateFrame |-> 0, sendStop |-> 0]
    /\ motorQueue = <<"fwdFrame">>
    /\ driver = [pc |-> "idle", order |-> None]
    /\ reader = [alive |-> TRUE, que |-> << <<"newImage", "\n">> >>]

\* The steps of the capture: newImage, takeAndQueuePhoto, the workers and the
\* transport process.
NextSession ==
    \/ CmdNewImage
    \/ CmdReturn
    \/ NewImage
    \/ AutoExposure
    \/ WaitMotor
    \/ NextShot
    \/ PoolWait
    \/ TakeLock
    \/ TakePop
    \/ Capture
    \/ QueuePhoto
    \/ SendAcquire
    \/ SendWrite
    \/ \E w \in Streamers : StreamerAcquire(w)
    \/ \E w \in Streamers : StreamerHeader(w)
    \/ \E w \in Streamers : StreamerImage(w)
    \/ \E w \in Streamers : StreamerFinally(w)
    \/ \E w \in Streamers : StreamerAppend(w)
    \/ \E w \in Streamers : StreamerLoop(w)
    \/ DriverTake
    \/ DriverArrive

SpecSession == InitSession /\ [][NextSession]_vars

(***************************************************************************)
(* The exposure arithmetic: fixExposure, the choice of the exposure time   *)
(* in newImage, calcExpParmsAE and bracketSS, against a sensor that clamps *)
(* the exposure time it is given to its range, reports it some frames      *)
(* later, and reports an analogue gain of 1 when the exposure suffices for *)
(* the scene.  srv, cam and main carry the fields this arithmetic reads    *)
(* and writes; the threads and connections stand still.                    *)
(***************************************************************************)
\* self.cam.minExpTime and self.cam.maxExpTime, in microseconds.
MinExpTime == 100

MaxExpTime == 2500

\* config.timeExpTolerance.
TimeExpTolerance == 50

\* The step of calcExpParmsAE.
AeStep == 500

\* self.baseExpTime after __init__.
FirstBaseExpTime == 500

\* Frames the sensor may take before it reports a new exposure time.
MaxLag == 1

\* The base estimates calcExpParmsAE starts from.
BaseExpTimes == {FirstBaseExpTime, 1500, 2000}

\* The scenes: the least exposure time at which the analogue gain is 1.
\* 0 is a scene bright enough at every exposure time, 5000 one too dark at
\* every exposure time of the sensor.
Scenes == {0, 1000, 1500, 5000}

\* The settings of fixExposure, in milliseconds: <<whole, tenths>>.
FixSettings == {<<0, 0>>, <<0, 5>>, <<1, 2>>, <<3, 0>>}

\* The values of cam.stops (whole stops, for which 2 ** (adj * stops / 2) is
\* a power of two when bkt <= 3) and of cam.bracketing.
EvenStops == {0, 2, 4}

BracketCounts == {1, 2, 3}

\* int(float(setting) * 1000)
Micros(setting) == setting[1] * 1000 + setting[2] * 100

Abs(x) == IF x < 0 THEN 0 - x ELSE x

\* What the sensor does with an exposure time outside its range.
Clamp(t) ==
    IF t > MaxExpTime THEN MaxExpTime
    ELSE IF t < MinExpTime THEN MinExpTime ELSE t

\* AnalogueGain of a frame exposed for t in the scene.
Gain(t, scene) == IF t >= scene THEN 1 ELSE 2

\* The metadata of the next frame: captureMetadata() or capture_file().
\* frames counts the frames taken, modulo 3.
Frame(c) ==
    IF c.lag = 0
    THEN [c EXCEPT !.reported = Clamp(c.control), !.frames = (@ + 1) % 3]
    ELSE [c EXCEPT !.lag = @ - 1, !.frames = (@ + 1) % 3]

\* self.cam.picam2.controls.ExposureTime = t
Commanded(c, t, lag) == [c EXCEPT !.control = t, !.lag = lag]

RECURSIVE Pow2(_)
Pow2(n) == IF n = 0 THEN 1 ELSE 2 * Pow2(n - 1)

\* bracketSS(stops, shot, bkt, ss): adj = (shot - 1) / (bkt - 1) * 2 - 1 and
\* int(ss * 2 ** (adj * stops / 2)), then the two clamps.  e is
\* adj * stops / 2.
bracketSS(stops, shot, bkt, ss) ==
    IF bkt = 1 THEN ss
    ELSE LET e == (((2 * (shot - 1) - (bkt - 1)) * stops) \div (bkt - 1))
                  \div 2
             t == IF e >= 0 THEN ss * Pow2(e) ELSE ss \div Pow2(0 - e)
             u == IF t > MaxExpTime THEN MaxExpTime ELSE t
         IN IF u < MinExpTime THEN MinExpTime ELSE u

InitExposure ==
    /\ \E base \in BaseExpTimes :
         srv = [imgcount |-> 0, autoAdvance |-> FALSE, baseExpTime |-> base]
    /\ \E mode \in {"previewing", "capturing"}, bkt \in BracketCounts,
          ae \in BOOLEAN, stops \in EvenStops, scene \in Scenes :
         cam = [mode |-> mode, bracketing |-> bkt, autoExp |-> ae,
                awb |-> FALSE, stops |-> stops, scene |-> scene,
                ManExposureTime |-> 1000, AeExposureTime |-> 1000,
                exposureTime |-> 1000, control |-> 1000, reported |-> 1000,
                lag |-> 0, frames |-> 0, bracketExposure |-> 1000]
    /\ main = [pc |-> "run", stack |-> <<>>, handler |-> FALSE, flag |-> None,
               imgflag |-> None, shot |-> 0, processor |-> None,
               error |-> None, adjust1 |-> FALSE, adjust2 |-> FALSE]
    /\ pool = [i \in 1..NumStreamers |-> ThreadName(i)]
    /\ connectionLock = None
    /\ poolLock = None
    /\ motorLock = None
    /\ streamer = [w \in Streamers |->
                     [pc |-> "wait", event |-> FALSE, imgflag |-> "s",
                      frame |-> 0, size |-> None, failed |-> FALSE,
                      terminated |-> FALSE]]
    /\ wire = <<>>
    /\ buf = <<>>
    /\ conn = [imgClosed |-> FALSE, ctrlClosed |-> FALSE,
               socksClosed |-> FALSE, broken |-> FALSE, stalled |-> FALSE]
    /\ ev = [mainExit |-> FALSE, motExit |-> FALSE, cap |-> FALSE]
    /\ sv = [updateFrame |-> 0, sendStop |-> 1]
    /\ motorQueue = <<>>
    /\ driver = [pc |-> "idle", order |-> None]
    /\ reader = [alive |-> TRUE, que |-> <<>>]
    /\ hist = [line |-> <<>>, snap |-> <<>>, inCmd |-> FALSE,
               enq |-> 0, fwd |-> 0, sent |-> 0, assigned |-> <<>>,
               exitLog |-> <<>>, exitRuns |-> 0, exitPopped |-> <<>>,
               captured |-> 0, faults |-> 0, inputs |-> 0]

\* fixExposure: self.cam.ManExposureTime = int(float(setting) * 1000)
FixExposure ==
    /\ main.pc = "run"
    /\ \E setting \in FixSettings :
         cam' = [cam EXCEPT !.ManExposureTime = Micros(setting)]
    /\ UNCHANGED <<srv, main, pool, connectionLock, poolLock, motorLock,
                   streamer, wire, buf, conn, ev, sv, motorQueue, driver,
                   reader, hist>>

\* newImage up to the first exposure time it gives the sensor: the manual
\* one, or the call of calcExpParmsAE.
SetExposure ==
    /\ main.pc = "run"
    /\ \E lag \in 0..MaxLag :
         CASE cam.mode = "previewing" ->
                /\ cam' = Commanded(cam, cam.ManExposureTime, lag)
                /\ main' = main
           [] cam.mode = "capturing" /\ cam.autoExp ->
                /\ cam' = cam
                /\ main' = [main EXCEPT !.pc = "ae_start"]
           [] OTHER ->
                /\ cam' = Commanded([cam EXCEPT !.exposureTime =
                                                  cam.ManExposureTime],
                                    cam.ManExposureTime, lag)
                /\ main' = [main EXCEPT !.pc = "bracket", !.shot = 1]
    /\ UNCHANGED <<srv, pool, connectionLock, poolLock, motorLock, streamer,
                   wire, buf, conn, ev, sv, motorQueue, driver, reader, hist>>

\* calcExpParmsAE up to the while loop: the base estimate is given to the
\* sensor and a first frame is taken.
CalcStart ==
    /\ main.pc = "ae_start"
    /\ \E lag \in 0..MaxLag :
         cam' = Frame(Commanded([cam EXCEPT !.AeExposureTime =
                                              srv.baseExpTime],
                                srv.baseExpTime, lag))
    /\ main' = [main EXCEPT !.pc = "ae_stab", !.adjust1 = FALSE,
                            !.adjust2 = FALSE]
    /\ UNCHANGED <<srv, pool, connectionLock, poolLock, motorLock, streamer,
                   wire, buf, conn, ev, sv, motorQueue, driver, reader, hist>>

\* One test of the inner while loop: the metadata of a frame are read, and
\* while the reported exposure time is not the commanded one another frame
\* is taken.
CalcStabilise ==
    /\ main.pc = "ae_stab"
    /\ LET c == Frame(cam)
       IN IF Abs(c.reported - c.AeExposureTime) > TimeExpTolerance
          THEN /\ cam' = Frame(c)
               /\ main' = main
          ELSE /\ cam' = c
               /\ main' = [main EXCEPT !.pc = "ae_test"]
    /\ UNCHANGED <<srv, pool, connectionLock, poolLock, motorLock, streamer,
                   wire, buf, conn, ev, sv, motorQueue, driver, reader, hist>>

\* A break taken as soon as the exposure time has been reduced once.
CalcAcceptReduced ==
    /\ main.pc = "ae_test"
    /\ Gain(Frame(cam).reported, cam.scene) = 1
    /\ main.adjust1
    /\ cam' = Frame(cam)
    /\ srv' = [srv EXCEPT !.baseExpTime = cam.AeExposureTime]
    /\ main' = [main EXCEPT !.pc = "ae_done"]
    /\ UNCHANGED <<pool, connectionLock, poolLock, motorLock, streamer, wire,
                   buf, conn, ev, sv, motorQueue, driver, reader, hist>>

\* AnalogueGain == 1 and adjust2: break; the exposure time becomes the base
\* estimate and calcExpParmsAE returns.
CalcAccept ==
    /\ main.pc = "ae_test"
    /\ Gain(Frame(cam).reported, cam.scene) = 1
    /\ main.adjust2
    /\ cam' = Frame(cam)
    /\ srv' = [srv EXCEPT !.baseExpTime = cam.AeExposureTime]
    /\ main' = [main EXCEPT !.pc = "ae_done"]
    /\ UNCHANGED <<pool, connectionLock, poolLock, motorLock, streamer, wire,
                   buf, conn, ev, sv, motorQueue, driver, reader, hist>>

\* AnalogueGain == 1: the exposure time is reduced.
CalcReduce ==
    /\ main.pc = "ae_test"
    /\ Gain(Frame(cam).reported, cam.scene) = 1
    /\ ~main.adjust2
    /\ \E lag \in 0..MaxLag :
         cam' = Commanded([Frame(Frame(cam)) EXCEPT !.AeExposureTime =
                                                      @ - AeStep],
                          cam.AeExposureTime - AeStep, lag)
    /\ main' = [main EXCEPT !.pc = "ae_stab", !.adjust1 = TRUE]
    /\ UNCHANGED <<srv, pool, connectionLock, poolLock, motorLock, streamer,
                   wire, buf, conn, ev, sv, motorQueue, driver, reader, hist>>

\* AnalogueGain > 1: the exposure time is increased.
CalcIncrease ==
    /\ main.pc = "ae_test"
    /\ Gain(Frame(cam).reported, cam.scene) > 1
    /\ \E lag \in 0..MaxLag :
         cam' = Commanded([Frame(Frame(Frame(cam))) EXCEPT !.AeExposureTime =
                                                             @ + AeStep],
                          cam.AeExposureTime + AeStep, lag)
    /\ main' = [main EXCEPT !.pc = "ae_stab",
                            !.adjust2 = main.adjust1 \/ @]
    /\ UNCHANGED <<srv, pool, connectionLock, poolLock, motorLock, streamer,
                   wire, buf, conn, ev, sv, motorQueue, driver, reader, hist>>

\* newImage after calcExpParmsAE: the exposure time found is the one of the
\* capture.
CalcReturn ==
    /\ main.pc = "ae_done"
    /\ \E lag \in 0..MaxLag :
         cam' = Commanded([cam EXCEPT !.exposureTime = cam.AeExposureTime],
                          cam.AeExposureTime, lag)
    /\ main' = [main EXCEPT !.pc = "bracket", !.shot = 1]
    /\ UNCHANGED <<srv, pool, connectionLock, poolLock, motorLock, streamer,
                   wire, buf, conn, ev, sv, motorQueue, driver, reader, hist>>

\* One pass of the for loop: the exposure time of the shot is computed and
\* given to the sensor; after the last shot newImage returns.
BracketShot ==
    /\ main.pc = "bracket"
    /\ IF main.shot <= cam.bracketing
       THEN LET t == bracketSS(cam.stops, main.shot, cam.bracketing,
                               cam.exposureTime)
            IN /\ \E lag \in 0..MaxLag :
                    cam' = Commanded([cam EXCEPT !.bracketExposure = t],
                                     t, lag)
               /\ main' = [main EXCEPT !.shot = @ + 1]
       ELSE /\ cam' = cam
            /\ main' = [main EXCEPT !.pc = "run", !.shot = 0]
    /\ UNCHANGED <<srv, pool, connectionLock, poolLock, motorLock, streamer,
                   wire, buf, conn, ev, sv, motorQueue, driver, reader, hist>>

NextExposure ==
    \/ FixExposure
    \/ SetExposure
    \/ CalcStart
    \/ CalcStabilise
    \/ CalcAccept
    \/ CalcReduce
    \/ CalcIncrease
    \/ CalcReturn
    \/ BracketShot

SpecExposure == InitExposure /\ [][NextExposure]_vars

\* The main thread runs: a step of calcExpParmsAE that can be taken is taken.
FairExposure ==
    /\ WF_vars(CalcStart)
    /\ WF_vars(CalcStabilise)
    /\ WF_vars(CalcAccept)
    /\ WF_vars(CalcReduce)
    /\ WF_vars(CalcIncrease)

SpecExposureLive == SpecExposure /\ FairExposure

(***************************************************************************)
(* Properties.                                                             *)
(***************************************************************************)
Range(s) == {s[i] : i \in 1..Len(s)}

\* The contexts that are between the first and the last byte of a record
\* they write to the image socket.
Writing ==
    (IF main.pc \in {"send_wr", "ex_notify"} THEN {Main} ELSE {})
    \cup {w \in Streamers : streamer[w].pc \in {"header", "image"}}
    \cup (IF driver.pc = "write" THEN {Motor} ELSE {})

\* On the wire every header is followed by the image bytes of its own frame,
\* and a first piece of image bytes by the rest of them.
WireFramed ==
    \A i \in 1..Len(wire) :
        (wire[i].t \in {"hdr", "img"} /\ ~wire[i].last /\ i < Len(wire))
            => (wire[i + 1].t = "img" /\ wire[i + 1].id = wire[i].id)

\* C1: at most one context (main thread, ImageStreamer, MotorDriver process)
\* is writing a record to the image socket at a time, and no record starts
\* on the wire inside the frame of another writer.
C1_OneWriter == Cardinality(Writing) <= 1 /\ WireFramed

\* C2: when the connection lock is free, nothing of a frame an ImageStreamer
\* wrote is still unflushed in config.imgConn (the frame is complete on the
\* socket when its sender lets go of the lock).
C2_FlushedAtRelease == connectionLock = None => buf = <<>>

\* The slots in config.pool, and the slots taken out of it.
Idle == Range(pool)

CheckedOut == Streamers \ Idle

\* A slot that has work: handed to takeAndQueuePhoto, woken, or sending.
Engaged(w) ==
    \/ (main.processor = w /\ main.pc \in {"tq_capture", "tq_set", "send_acq",
                                            "send_wr"})
    \/ streamer[w].event
    \/ streamer[w].pc \in {"header", "image", "finally", "append"}

\* C3: config.pool holds no slot twice, no slot of it is assigned or
\* transmitting, and idle plus checked-out slots are the 5 slots.
C3_PoolSlots ==
    /\ \A i, j \in 1..Len(pool) : pool[i] = pool[j] => i = j
    /\ \A w \in Idle : ~Engaged(w)
    /\ Len(pool) + Cardinality(CheckedOut) = NumStreamers

\* A slot went through a whole checkout and is back in the pool while
\* another one is checked out and sending.
C3_Witness ==
    /\ \E w \in Idle : streamer[w].pc = "loop"
    /\ \E v \in CheckedOut : streamer[v].pc = "image"
    /\ Len(pool) < NumStreamers

\* C4: the frame headers on the wire are in the order the frames were
\* captured.
C4_CaptureOrder ==
    \A i, j \in 1..Len(wire) :
        (i < j /\ wire[i].t = "hdr" /\ wire[j].t = "hdr")
            => wire[i].id < wire[j].id

\* The line being processed asks for an image while the camera is capturing
\* with one shot per frame, and processCmd has reached its end.
SingleCaptureDone ==
    /\ main.pc = "cmd_end"
    /\ hist.inCmd
    /\ Dispatch(hist.line) = "newImage"
    /\ hist.snap.cam.mode = "capturing"
    /\ hist.snap.cam.bracketing = 1

\* The frames handed to ImageStreamers since the command started.
NewFrames == SubSeq(hist.assigned, hist.snap.na + 1, Len(hist.assigned))

Untouched ==
    /\ srv = hist.snap.srv
    /\ cam = hist.snap.cam
    /\ sv = hist.snap.sv
    /\ hist.enq = hist.snap.enq
    /\ hist.sent = hist.snap.sent
    /\ Len(hist.assigned) = hist.snap.na

\* The line in hand starts with a character that is no command code.
UnknownCode == hist.inCmd /\ Head(hist.line) \notin Codes

\* C6: a line whose first character is no command code changes no session
\* state, enqueues no order, writes nothing, and processCmd returns without
\* raising.
C6_UnknownIgnored ==
    UnknownCode => (main.pc = "cmd_end" /\ main.error = None /\ Untouched)

\* A number is required after the code and the rest of the line is none, or
\* the line holds nothing but its end.
Malformed(line) ==
    \/ StripNl(line) = <<>>
    \/ /\ Head(line) \in IntCmds \cup {"awbMode", "bracketingShots"}
       /\ ~IsInt(Setting(line))
    \/ Head(line) \in FloatCmds /\ ~IsFloat(Setting(line))
    \/ /\ Head(line) \in FrameCmds
       /\ Setting(line) # <<>>
       /\ ~IsInt(Setting(line))

\* C7: a malformed line is ignored: run() keeps going (no except clause is
\* entered, so no "X" and no exit()), and session state is unchanged.
C7_MalformedIgnored ==
    (hist.inCmd /\ Malformed(hist.line)) =>
        (main.pc = "cmd_end" /\ ~main.handler /\ Untouched)

\* The steps of exit() as the shutdown sequence names them.
ExitOrder ==
    <<"notify", "cleanup", "signal", "join", "streamers", "camera", "close",
      "grace", "sockets">>

\* C8: the steps a run of exit() has performed are the first steps of the
\* shutdown order, each once.
C8_ExitOrder ==
    /\ Len(hist.exitLog) <= Len(ExitOrder)
    /\ hist.exitLog = SubSeq(ExitOrder, 1, Len(hist.exitLog))

\* exit() has gone through all its steps while an ImageStreamer was still
\* checked out.
C8_Witness ==
    /\ hist.exitLog = ExitOrder
    /\ main.pc = "ex_return"
    /\ hist.exitPopped # <<>>
    /\ Len(hist.exitPopped) < NumStreamers

\* C9: once exit() has run, the shutdown run again through an except clause
\* of run() (infExitClient, exit) raises nothing of its own that leaves
\* run(), and exit() pops no slot twice.
C9_SecondExitClean ==
    /\ (hist.exitRuns >= 1 /\ main.pc = "dead") => main.error # "ValueError"
    /\ \A i, j \in 1..Len(hist.exitPopped) :
         hist.exitPopped[i] = hist.exitPopped[j] => i = j

\* C10: exit() is never waiting for connectionLock while an ImageStreamer
\* holds it in a write that does not return.
C10_ExitNotBlocked ==
    ~(main.pc = "exit" /\ connectionLock \in Streamers /\ conn.stalled
      /\ streamer[connectionLock].pc \in {"header", "image"})

\* The notices on the wire that end a session: "X" of infExitClient, "T" of
\* exit().
Notices == {i \in 1..Len(wire) : wire[i].t = "rec" /\ wire[i].f \in {"X", "T"}}

\* exit() has stopped motor and light, ended the MotorDriver process and
\* closed both connections.
ShutDown ==
    /\ "cleanup" \in Range(hist.exitLog)
    /\ driver.pc = "done"
    /\ conn.imgClosed
    /\ conn.ctrlClosed

\* C11: when a write of the main thread to the image connection has failed
\* and run() has ended, the shutdown sequence has been performed: motor and
\* light stopped, the MotorDriver process ended, both connections closed.
C11_FailureShutsDown ==
    (main.pc = "dead" /\ main.error = "BrokenPipeError") => ShutDown

\* C12: a session writes at most one of the notices "X" and "T", and never
\* both.
C12_OneNotice == Cardinality(Notices) <= 1

\* C13: an ImageStreamer that appends itself to config.pool does not hold
\* connectionLock, and while the server is not shutting down every slot in
\* config.pool belongs to a thread that is alive and will send the next
\* frame given to it.
C13_PooledCanSend ==
    /\ \A w \in Streamers :
         streamer[w].pc \in {"finally", "append"} => connectionLock # w
    /\ ~ev.mainExit => \A w \in Idle : streamer[w].pc # "ended"


\* Nothing is left for the program to do until the client sends a line: the
\* main thread waits in run(), every worker waits for its event, the
\* transport process has no order.
Quiescent ==
    /\ main.pc = "run"
    /\ reader.que = <<>>
    /\ connectionLock = None
    /\ \A w \in Streamers : streamer[w].pc = "wait" /\ ~streamer[w].event
    /\ motorQueue = <<>>
    /\ driver.pc = "idle"

\* The last bytes of the image of frame id have reached the client once.
Transmitted(id) ==
    Cardinality({i \in 1..Len(wire) : wire[i] = Img(id, TRUE)}) = 1

\* C14: when no write has failed or blocked, every shot of a capture that was
\* assigned to a slot has had its frame transmitted exactly once by the time
\* nothing is left to do.
C14_ShotsTransmitted ==
    (Quiescent /\ hist.faults = 0) =>
        \A k \in 1..Len(hist.assigned) :
            hist.assigned[k][2] # "p" => Transmitted(hist.assigned[k][1])

\* The main thread is at the start of a telemetry write of the capture path
\* (sendSS("e"), sendSS("f"), sendGains()) and has to take connectionLock.
TelemetryPending ==
    /\ main.pc = "send_acq"
    /\ main.flag \in {"e", "f", "g"}
    /\ cam.mode = "capturing"

\* C19: while a worker holds the connection lock to send an earlier frame and
\* a slot is idle, the capture path is not waiting for that lock.
C19_CaptureNotBlocked ==
    ~(TelemetryPending /\ connectionLock \in Streamers /\ Len(pool) > 0)

\* The line being processed has run newImage() (on its own, or as part of
\* startCapture or testPhoto), and processCmd has reached its end.
ImageCmdDone ==
    /\ main.pc = "cmd_end"
    /\ hist.inCmd
    /\ Dispatch(hist.line) \in {"newImage", "startCapture", "testPhoto"}

\* The camera mode newImage() found: startCapture and testPhoto set it to
\* capturing before the call.
ModeAtImage ==
    IF Dispatch(hist.line) = "newImage" THEN hist.snap.cam.mode
    ELSE "capturing"

\* The role flags of a capture of n shots, in order.
RoleFlags(n) ==
    IF n = 1 THEN <<"s">>
    ELSE [i \in 1..n |-> IF i = n THEN "b" ELSE "a"]

\* The flags of the frames handed out since the command started, in order.
NewFlags == [i \in 1..Len(NewFrames) |-> NewFrames[i][2]]

\* C20: a capture in capturing mode with bracket count n assigns exactly n
\* frames, flagged "s" when n = 1 and "a", ..., "a", "b" when n >= 2, in
\* assignment order; in previewing mode the one frame assigned is flagged "p".
C20_RoleFlags ==
    /\ ImageCmdDone =>
         /\ ModeAtImage = "capturing"
              => NewFlags = RoleFlags(hist.snap.cam.bracketing)
         /\ ModeAtImage = "previewing" => NewFlags = <<"p">>
    /\ (main.pc = "tq_set" /\ cam.mode = "previewing")
         => streamer[main.processor].imgflag = "p"

\* A bracket of two shots has been captured and both frames handed out.
C20_Witness ==
    /\ ImageCmdDone
    /\ ModeAtImage = "capturing"
    /\ hist.snap.cam.bracketing = 2
    /\ Len(NewFrames) = 2

\* The main thread is taking an exposure: it is inside calcExpParmsAE, which
\* captures to measure, or at capture_file of takeAndQueuePhoto.
Exposing == main.pc \in {"ni_ae", "tq_capture"}

\* C15: in capturing mode no exposure is taken while the busy flag of the
\* transport process (capEvent) is set.
C15_NoExposureWhileBusy ==
    (cam.mode = "capturing" /\ Exposing) => ~ev.cap

\* C16: calcExpParmsAE, once started, comes to its end (the exposure time
\* accepted and made the base estimate), whatever the scene, the lag of the
\* sensor and the base estimate it starts from.
C16_CalcTerminates == (main.pc = "ae_start") ~> (main.pc = "ae_done")

InRange(t) == MinExpTime <= t /\ t <= MaxExpTime

\* C17: the exposure time given to the sensor and the persisted base
\* estimate lie in [minExpTime, maxExpTime] at all times.
C17_ExposureInRange ==
    /\ InRange(cam.control)
    /\ InRange(srv.baseExpTime)

\* bracketSS has returned the exposure time of a shot.
BracketComputed == main.pc = "bracket" /\ main.shot > 1

\* C18: the value bracketSS returned for the shot lies in
\* [minExpTime, maxExpTime].
C18_BracketInRange == BracketComputed => InRange(cam.bracketExposure)

\* The main thread is at the decision of calcExpParmsAE and reads the gain.
GainRead == Gain(Frame(cam).reported, cam.scene)

Accepted ==
    /\ main'.pc = "ae_done"
    /\ cam'.AeExposureTime = cam.AeExposureTime
    /\ srv'.baseExpTime = cam.AeExposureTime

Reduced ==
    /\ main'.pc = "ae_stab"
    /\ cam'.AeExposureTime = cam.AeExposureTime - 500
    /\ cam'.control = cam'.AeExposureTime
    /\ main'.adjust1
    /\ main'.adjust2 = main.adjust2

Increased ==
    /\ main'.pc = "ae_stab"
    /\ cam'.AeExposureTime = cam.AeExposureTime + 500
    /\ cam'.control = cam'.AeExposureTime
    /\ main'.adjust1 = main.adjust1
    /\ main'.adjust2 = (main.adjust2 \/ main.adjust1)

\* C21: at the decision of the autoexposure loop, with gain 1 the exposure
\* time is accepted when an increase after a decrease has been recorded
\* (adjust2) and is otherwise decreased by 500 with the decrease recorded
\* (adjust1); with gain above 1 it is increased by 500, and the increase is
\* recorded only if a decrease has been recorded.
C21_Decision ==
    [][main.pc = "ae_test" =>
         /\ (GainRead = 1 /\ main.adjust2) => Accepted
         /\ (GainRead = 1 /\ ~main.adjust2) => Reduced
         /\ GainRead > 1 => Increased]_vars

\* calcExpParmsAE has accepted an exposure time, after a decrease and an
\* increase.
C21_Witness == main.pc = "ae_done" /\ main.adjust1 /\ main.adjust2

\* C21 as stated: with gain 1 the exposure time is accepted as soon as one
\* decrease has been recorded.
C21_AcceptAfterDecrease ==
    [][(main.pc = "ae_test" /\ GainRead = 1 /\ main.adjust1) => Accepted]_vars

\* The flags of the image connection and the payload of each, as documented.
ImageFlags == {"p", "s", "a", "b"}

DocumentedFlags == ImageFlags \cup {"e", "g", "l", "L", "X", "T"}

DocumentedFields(f) ==
    CASE f \in ImageFlags -> <<"int32", "uint32">>
      [] f \in {"e", "f"} -> <<"int32", "float32", "float32", "float32">>
      [] f = "g" -> <<"float32", "float32">>
      [] OTHER -> <<>>

\* The records on the wire written by the main thread or an ImageStreamer:
\* all but the notices of the transport process.
ServerRecords ==
    {i \in 1..Len(wire) : wire[i].t \in {"rec", "hdr"} /\ wire[i].f # "m"}

OffImageDone ==
    /\ main.pc = "cmd_end"
    /\ hist.inCmd
    /\ Dispatch(hist.line) = "newImage"
    /\ hist.snap.cam.mode = "off"

\* C23: newImage while the mode is off does nothing: no capture, no slot
\* taken, nothing sent, no motor order, and imgcount as it was.
C23_OffIsNoOp ==
    OffImageDone =>
        /\ NewFrames = <<>>
        /\ main.processor = None
        /\ hist.sent = hist.snap.sent
        /\ hist.enq = hist.snap.enq
        /\ srv.imgcount = hist.snap.srv.imgcount

\* The threads that are waiting for connectionLock and for poolLock.
WantsConnection ==
    {w \in Streamers : streamer[w].pc = "wait" /\ streamer[w].event}
        \cup (IF main.pc \in {"send_acq", "exit"} THEN {Main} ELSE {})

WantsPool ==
    {w \in Streamers : streamer[w].pc = "finally"}
        \cup (IF main.pc = "tq_lock" THEN {Main} ELSE {})

\* C24: no thread holds connectionLock and poolLock at once, and no holder
\* of one of them is waiting for the other, so the two locks cannot form a
\* cycle of waiting threads.
C24_NoLockCycle ==
    /\ connectionLock = None \/ connectionLock # poolLock
    /\ connectionLock \notin WantsPool
    /\ poolLock \notin WantsConnection

\* Both locks are held, by two workers, while the main thread waits for
\* connectionLock.
C24_Witness ==
    /\ connectionLock \in Streamers
    /\ poolLock \in Streamers
    /\ Main \in WantsConnection

\* The worker has a frame to send: it was woken and waits for connectionLock,
\* or it is inside sendFile.
Sending(w) ==
    \/ streamer[w].pc = "wait" /\ streamer[w].event
    \/ streamer[w].pc \in {"header", "image"}

\* C25: once exit() has closed config.imgConn, no worker has a frame to
\* send.
C25_NoSenderAfterClose ==
    conn.imgClosed => \A w \in Streamers : ~Sending(w)

=============================================================================
